---- MODULE Spec2Model ----
(***************************************************************************)
(* Account-sync job orchestrator of spaceone.identity (JobService):       *)
(* job ledger, dispatch queue, sync executor, hierarchy reconciler and    *)
(* secret rotation, as coded in service/job_service.py.                   *)
(*                                                                         *)
(* The manager classes (JobManager, WorkspaceManager, ...) are not part   *)
(* of the available source; they are modelled from the specification's    *)
(* description of the stores.  Of the two behaviours the specification    *)
(* allows for a status transition attempted on a terminal job ("no-op or  *)
(* error"), the model takes the no-op.                                     *)
(***************************************************************************)
EXTENDS Integers, Sequences, FiniteSets, TLC

VARIABLES
    now,                \* wall clock, in minutes (datetime.utcnow())
    jobs,               \* the Job collection; jobs[i].job_id = i
    queue,              \* dispatch messages pushed by push_job
    delivered,          \* number of dispatch messages delivered so far
    worker,             \* per worker: position inside sync_service_accounts
    workspaces,         \* the Workspace collection
    project_groups,     \* the ProjectGroup collection
    projects,           \* the Project collection
    service_accounts,   \* the ServiceAccount collection
    secrets,            \* the secret vault
    secret_seq,         \* number of secrets the vault has issued so far
    last_sync,          \* history: the last record loop that ran undisturbed
    ret                 \* history: what the step just taken did or returned

vars == << now, jobs, queue, delivered, worker, workspaces, project_groups,
           projects, service_accounts, secrets, secret_seq, last_sync, ret >>

inventory == << workspaces, project_groups, projects, service_accounts, secrets >>

----------------------------------------------------------------------------
\* Bounds of the model

MaxJobs == 3
MaxTime == 10
TickStep == 5
MaxDeliveries == 2

WorkerList == << "w1", "w2" >>
Workers == { WorkerList[i] : i \in DOMAIN WorkerList }

\* timedelta(minutes=10) in _check_duplicate_job
DuplicateWindow == 10

None == "None"

\* finished_at and last_synced_at are kept as set / not set: nothing reads
\* the time they hold
NoTime == << >>
Stamped == << "utcnow" >>

----------------------------------------------------------------------------
\* Trusted accounts (immutable during a sync run)

TrustedAccountList == << "ta-1", "ta-2", "ta-3", "ta-4" >>

TrustedAccountIds == { TrustedAccountList[i] : i \in DOMAIN TrustedAccountList }

TrustedAccount(id) ==
    IF id = "ta-1"
    THEN [ trusted_account_id |-> "ta-1",
           resource_group     |-> "DOMAIN",
           workspace_id       |-> "*",
           schedule           |-> [state |-> "ENABLED", hours |-> {0, 1}],
           sync_options       |-> [skip_project_group |-> FALSE,
                                   single_workspace_id |-> None],
           trusted_secret_id  |-> "trusted-secret-1" ]
    ELSE IF id = "ta-2"
    THEN [ trusted_account_id |-> "ta-2",
           resource_group     |-> "WORKSPACE",
           workspace_id       |-> "workspace-1",
           schedule           |-> [state |-> "ENABLED", hours |-> {1}],
           sync_options       |-> [skip_project_group |-> FALSE,
                                   single_workspace_id |-> None],
           trusted_secret_id  |-> "trusted-secret-2" ]
    ELSE IF id = "ta-3"
    THEN [ trusted_account_id |-> "ta-3",
           resource_group     |-> "DOMAIN",
           workspace_id       |-> "*",
           schedule           |-> [state |-> "DISABLED", hours |-> {0, 1}],
           sync_options       |-> [skip_project_group |-> FALSE,
                                   single_workspace_id |-> "workspace-1"],
           trusted_secret_id  |-> "trusted-secret-3" ]
    ELSE [ trusted_account_id |-> "ta-4",
           resource_group     |-> "DOMAIN",
           workspace_id       |-> "*",
           schedule           |-> [state |-> "DISABLED", hours |-> {}],
           sync_options       |-> [skip_project_group |-> FALSE,
                                   single_workspace_id |-> None],
           trusted_secret_id  |-> "trusted-secret-4" ]

----------------------------------------------------------------------------
\* Job ledger (JobManager)

TerminalStatus == {"SUCCESS", "FAILURE", "CANCELED"}

create_job(js, trusted_account_id, workspace_id, t) ==
    Append(js, [ job_id             |-> Len(js) + 1,
                 trusted_account_id |-> trusted_account_id,
                 workspace_id       |-> workspace_id,
                 status             |-> "PENDING",
                 created_at         |-> t,
                 finished_at        |-> NoTime,
                 error              |-> None ])

\* A store that does not guard terminal jobs
change_in_progress_status_overwriting(js, job_id) ==
    [js EXCEPT ![job_id].status = "IN_PROGRESS"]

change_in_progress_status(js, job_id) ==
    IF js[job_id].status \in TerminalStatus
    THEN js
    ELSE [js EXCEPT ![job_id].status = "IN_PROGRESS"]

change_success_status_overwriting(js, job_id) ==
    [js EXCEPT ![job_id].status = "SUCCESS", ![job_id].finished_at = Stamped]

change_success_status(js, job_id) ==
    IF js[job_id].status \in TerminalStatus
    THEN js
    ELSE [js EXCEPT ![job_id].status = "SUCCESS", ![job_id].finished_at = Stamped]

change_canceled_status(js, job_id) ==
    IF js[job_id].status \in TerminalStatus
    THEN js
    ELSE [js EXCEPT ![job_id].status = "CANCELED", ![job_id].finished_at = Stamped]

change_canceled_by_vo(js, job_id) ==
    change_canceled_status(js, job_id)

change_error_status(js, job_id, e) ==
    IF js[job_id].status \in TerminalStatus
    THEN js
    ELSE [js EXCEPT ![job_id].status = "FAILURE", ![job_id].error = e]

update_job_finished_at(js, job_id) ==
    [js EXCEPT ![job_id].finished_at = Stamped]

----------------------------------------------------------------------------
\* JobService helpers

Min(S) == CHOOSE x \in S : \A y \in S : x <= y

Max(S) == CHOOSE x \in S : \A y \in S : x >= y

\* list_jobs: the selected jobs as a list.  The store's result order is not
\* fixed by the service: oldest first (insertion order) or newest first.
RECURSIVE list_jobs(_, _)
list_jobs(ids, newest_first) ==
    IF ids = {} THEN << >>
    ELSE LET i == IF newest_first THEN Max(ids) ELSE Min(ids)
         IN  << i >> \o list_jobs(ids \ {i}, newest_first)

duplicate_candidates(js, trusted_account_id, this_job_id) ==
    { i \in DOMAIN js :
        /\ js[i].trusted_account_id = trusted_account_id
        /\ js[i].workspace_id = js[this_job_id].workspace_id
        /\ js[i].status = "IN_PROGRESS"
        /\ js[i].job_id # this_job_id }

is_recent_lenient(created_at, t) == created_at >= t - DuplicateWindow

is_recent_inverted(created_at, t) == created_at < t - DuplicateWindow

is_recent(created_at, t) == created_at > t - DuplicateWindow

\* A loop that leaves stale jobs as they are
RECURSIVE check_duplicate_loop_keeping(_, _, _, _)
check_duplicate_loop_keeping(js, job_vos, i, t) ==
    IF i > Len(job_vos)
    THEN [duplicate |-> FALSE, jobs |-> js]
    ELSE IF is_recent(js[job_vos[i]].created_at, t)
         THEN [duplicate |-> TRUE, jobs |-> js]
         ELSE check_duplicate_loop_keeping(js, job_vos, i + 1, t)

\* The for loop of _check_duplicate_job over job_vos[i ..]
RECURSIVE check_duplicate_loop(_, _, _, _)
check_duplicate_loop(js, job_vos, i, t) ==
    IF i > Len(job_vos)
    THEN [duplicate |-> FALSE, jobs |-> js]
    ELSE IF is_recent(js[job_vos[i]].created_at, t)
         THEN [duplicate |-> TRUE, jobs |-> js]
         ELSE check_duplicate_loop(change_canceled_by_vo(js, job_vos[i]),
                                   job_vos, i + 1, t)

check_duplicate_job(js, trusted_account_id, this_job_id, newest_first, t) ==
    check_duplicate_loop(
        js,
        list_jobs(duplicate_candidates(js, trusted_account_id, this_job_id), newest_first),
        1, t)

is_job_failed_only_canceled(js, job_id) == js[job_id].status \in {"CANCELED"}

is_job_failed(js, job_id) == js[job_id].status \in {"CANCELED", "FAILURE"}

close_job_without_stamp(js, job_id) ==
    IF js[job_id].status = "IN_PROGRESS"
    THEN change_success_status(js, job_id)
    ELSE js

close_job(js, job_id) ==
    IF js[job_id].status = "IN_PROGRESS"
    THEN change_success_status(js, job_id)
    ELSE IF js[job_id].status = "FAILURE"
         THEN update_job_finished_at(js, job_id)
         ELSE js

\* The try of create_service_account_job around _get_trusted_secret_data and
\* the schema validation: an exception is caught and the payload becomes {}
resolve_trusted_secret_data_uncaught(outcome) ==
    [ data |-> "data", raised |-> outcome = "secret_error" ]

resolve_trusted_secret_data(outcome) ==
    [ data   |-> IF outcome = "secret_error" THEN "empty" ELSE "data",
      raised |-> FALSE ]

\* create_service_account_job on the ledger state st = [jobs, queue, raised]
create_service_account_job(st, trusted_account_id, outcome, newest_first, t) ==
    LET ta == TrustedAccount(trusted_account_id)
        workspace_id == IF ta.resource_group = "DOMAIN" THEN "*" ELSE ta.workspace_id
        resolved == resolve_trusted_secret_data(outcome)
        trusted_secret_data == resolved.data
        js1 == create_job(st.jobs, trusted_account_id, workspace_id, t)
        job_id == Len(js1)
        chk == check_duplicate_job(js1, trusted_account_id, job_id, newest_first, t)
        msg == [ job_id             |-> job_id,
                 trusted_account_id |-> trusted_account_id,
                 trusted_secret_id  |-> ta.trusted_secret_id,
                 secret_data        |-> trusted_secret_data,
                 workspace_id       |-> ta.workspace_id ]
    IN  IF outcome = "provider_error" \/ resolved.raised
        THEN [st EXCEPT !.raised = TRUE]
        ELSE IF chk.duplicate
        THEN [ jobs   |-> change_error_status(chk.jobs, job_id, "ERROR_DUPLICATE_JOB"),
               queue  |-> st.queue,
               raised |-> FALSE ]
        ELSE IF outcome = "push_error"
        THEN [ jobs   |-> change_error_status(chk.jobs, job_id, "push_job"),
               queue  |-> st.queue,
               raised |-> FALSE ]
        ELSE [ jobs   |-> chk.jobs,
               queue  |-> st.queue \cup {msg},
               raised |-> FALSE ]

\* _get_all_schedule_enabled_trusted_accounts: the due accounts, as a list
is_scheduled_any_state(id, current_hour) ==
    current_hour \in TrustedAccount(id).schedule.hours

is_scheduled(id, current_hour) ==
    /\ TrustedAccount(id).schedule.state = "ENABLED"
    /\ current_hour \in TrustedAccount(id).schedule.hours

get_all_schedule_enabled_trusted_accounts(current_hour) ==
    LET due(id) == is_scheduled(id, current_hour)
    IN  SelectSeq(TrustedAccountList, due)

\* The for loop of create_jobs_by_trusted_account over the due accounts
\* vos[i ..]; an exception of one account is caught and logged.
RECURSIVE create_jobs_loop_uncaught(_, _, _, _, _, _)
create_jobs_loop_uncaught(st, vos, i, outcomes, newest_first, t) ==
    IF i > Len(vos) \/ st.raised THEN st
    ELSE create_jobs_loop_uncaught(
             create_service_account_job(st, vos[i], outcomes[vos[i]], newest_first, t),
             vos, i + 1, outcomes, newest_first, t)

RECURSIVE create_jobs_loop(_, _, _, _, _, _)
create_jobs_loop(st, vos, i, outcomes, newest_first, t) ==
    IF i > Len(vos) THEN st
    ELSE LET st1 == create_service_account_job(st, vos[i], outcomes[vos[i]],
                                               newest_first, t)
         IN  create_jobs_loop([st1 EXCEPT !.raised = FALSE], vos, i + 1,
                              outcomes, newest_first, t)

----------------------------------------------------------------------------
\* Discovered records (account collector plugin responses)

Node(name, resource_id) == [name |-> name, resource_id |-> resource_id]

Record(name, resource_id, location, secret_data) ==
    [ name        |-> name,
      resource_id |-> resource_id,
      location    |-> location,
      data        |-> "data-of-" \o name,
      secret_data |-> secret_data ]

NoSecretData == "empty"

RecAcct1 == Record("acct-1", "r1", << Node("ws-a", "w1") >>, "key-abc")
RecAcct2 == Record("acct-2", "r2", << Node("ws-a", "w2"), Node("grp-1", "g1") >>, NoSecretData)
RecAcct3 == Record("acct-3", "r3", << Node("ws-b", "w1") >>, NoSecretData)
RecAcct4 == Record("acct-4", "r4", << >>, "key-xyz")
RecAcct2Moved == Record("acct-2", "r2", << Node("ws-a", "w2") >>, NoSecretData)
RecAcct5 == Record("acct-5", "r5", << Node("grp-1", "g1") >>, NoSecretData)
RecAcct6 == Record("acct-6", "r6", << Node("ws-a", "w2"), Node("grp-1", "g1"), Node("grp-2", "g2") >>, NoSecretData)
RecAcct1Renamed == Record("acct-1-renamed", "r1", << Node("ws-a", "w1") >>, "key-abc")

PluginResponses ==
    { << >>, << RecAcct1 >>, << RecAcct2 >>, << RecAcct3 >>, << RecAcct4 >>,
      << RecAcct1, RecAcct2 >>, << RecAcct1Renamed >>, << RecAcct4, RecAcct3 >>,
      << RecAcct3, RecAcct1 >> }

----------------------------------------------------------------------------
\* Hierarchy reconciler

Contains(s, x) == \E i \in DOMAIN s : s[i] = x

\* list.remove(x): drops the first occurrence
RECURSIVE list_remove(_, _)
list_remove(s, x) ==
    IF s = << >> THEN << >>
    ELSE IF Head(s) = x THEN Tail(s)
         ELSE << Head(s) >> \o list_remove(Tail(s), x)

\* _get_location
get_location_keeps_all(result, resource_group, sync_options) == result.location

get_location_defaulting(result, resource_group, sync_options) ==
    IF result.location = << >>
    THEN << Node(result.name, result.resource_id) >>
    ELSE result.location

get_location(result, resource_group, sync_options) ==
    IF sync_options.skip_project_group
    THEN IF resource_group = "DOMAIN"
         THEN IF result.location # << >> THEN << result.location[1] >>
                                         ELSE result.location
         ELSE << >>
    ELSE result.location

\* workspace_mgr.filter_workspaces(domain_id, name=name)
filter_workspaces_by_name(wss, name) ==
    { i \in DOMAIN wss : wss[i].name = name }

\* workspace_mgr.filter_workspaces(domain_id, references=[reference_id])
filter_workspaces_by_references(wss, reference_id) ==
    { i \in DOMAIN wss : Contains(wss[i].references, reference_id) }

\* _remove_old_reference_id_from_workspace
remove_old_reference_id_from_workspace(wss, reference_id) ==
    [ i \in DOMAIN wss |->
        IF i \in filter_workspaces_by_references(wss, reference_id)
        THEN [wss[i] EXCEPT !.references = list_remove(@, reference_id)]
        ELSE wss[i] ]

\* No workspace document
NoWorkspace == [ workspace_id |-> None, name |-> None, references |-> << >>,
                 trusted_account_id |-> None, is_managed |-> FALSE,
                 last_synced_at |-> NoTime ]

\* lines 494-496 of _create_workspace: the lookup by name, whose result
\* (the first document, as it was read) the rest of the call works on
lookup_workspace(wss, name) ==
    LET workspace_vos == filter_workspaces_by_name(wss, name)
    IN  IF workspace_vos # {}
        THEN [ found |-> TRUE, name |-> name, index |-> Min(workspace_vos),
               vo |-> wss[Min(workspace_vos)] ]
        ELSE [ found |-> FALSE, name |-> name, index |-> 0, vo |-> NoWorkspace ]

NoLookup == lookup_workspace(<< >>, None)

\* line 502: the branch is taken on the list the lookup returned
lookup_rechecked(wss, lookup) == lookup_workspace(wss, lookup.name)

lookup_used(wss, lookup) == lookup

\* lines 501-528 of _create_workspace, after the lookup; returns the
\* collection and the resolved workspace's id.  A match is by name, so the
\* "name changed" update never applies; the theme tag of a new workspace is
\* left out.
create_workspace_after_lookup(wss, lookup, trusted_account_id, location_info) ==
    LET name == location_info.name
        reference_id == location_info.resource_id
        used == lookup_used(wss, lookup)
    IN  IF used.found
        THEN LET i == used.index
                 vo == used.vo
                 references ==
                     IF vo.references # << >> /\ ~Contains(vo.references, reference_id)
                     THEN vo.references \o << reference_id >>
                     ELSE vo.references
                 updated ==
                     [wss EXCEPT ![i] =
                         [wss[i] EXCEPT !.trusted_account_id = trusted_account_id,
                                        !.is_managed = TRUE,
                                        !.references =
                                            IF references # vo.references
                                            THEN references ELSE @,
                                        !.last_synced_at = Stamped]]
             IN  [ workspaces   |-> remove_old_reference_id_from_workspace(updated, reference_id),
                   workspace_id |-> vo.workspace_id ]
        ELSE LET id == "workspace-" \o ToString(Len(wss) + 1)
             IN  [ workspaces   |-> Append(wss,
                        [ workspace_id       |-> id,
                          name               |-> name,
                          references         |-> << reference_id >>,
                          trusted_account_id |-> trusted_account_id,
                          is_managed         |-> TRUE,
                          last_synced_at     |-> Stamped ]),
                   workspace_id |-> id ]

\* _create_workspace as one call: lookup and update or create
create_workspace(wss, trusted_account_id, location_info) ==
    create_workspace_after_lookup(wss, lookup_workspace(wss, location_info.name),
                                  trusted_account_id, location_info)

\* _create_project_group; returns the collection and the group's id
create_project_group(pgs, workspace_id, trusted_account_id, location_info, parent_group_id) ==
    LET name == location_info.name
        reference_id == location_info.resource_id
        project_group_vos ==
            { i \in DOMAIN pgs : /\ pgs[i].is_managed
                                 /\ pgs[i].reference_id = reference_id
                                 /\ pgs[i].workspace_id = workspace_id }
    IN  IF project_group_vos # {}
        THEN LET i == Min(project_group_vos)
                 vo == pgs[i]
             IN  [ project_groups |->
                       [pgs EXCEPT ![i] =
                           [vo EXCEPT !.trusted_account_id = trusted_account_id,
                                      !.parent_group_id =
                                          IF parent_group_id # None
                                          THEN parent_group_id ELSE @,
                                      !.name = name,
                                      !.last_synced_at = Stamped]],
                   project_group_id |-> vo.project_group_id ]
        ELSE LET id == "pg-" \o ToString(Len(pgs) + 1)
             IN  [ project_groups |-> Append(pgs,
                        [ project_group_id   |-> id,
                          name               |-> name,
                          reference_id       |-> reference_id,
                          workspace_id       |-> workspace_id,
                          parent_group_id    |-> parent_group_id,
                          trusted_account_id |-> trusted_account_id,
                          is_managed         |-> TRUE,
                          last_synced_at     |-> Stamped ]),
                   project_group_id |-> id ]

\* The loop of sync_service_accounts over location[i ..] (lines 284-293)
RECURSIVE create_project_groups(_, _, _, _, _, _)
create_project_groups(pgs, workspace_id, trusted_account_id, location, i, parent_group_id) ==
    IF i > Len(location)
    THEN [ project_groups |-> pgs, parent_group_id |-> parent_group_id ]
    ELSE LET r == create_project_group(pgs, workspace_id, trusted_account_id,
                                       location[i], parent_group_id)
         IN  create_project_groups(r.project_groups, workspace_id,
                                   trusted_account_id, location, i + 1,
                                   r.project_group_id)

\* _create_project; returns the collection and the project's id.
\* create_project receives no trusted_account_id.
create_project(prs, result, workspace_id, trusted_account_id, project_group_id) ==
    LET name == result.name
        reference_id == result.resource_id
        project_vos ==
            { i \in DOMAIN prs : /\ prs[i].workspace_id = workspace_id
                                 /\ prs[i].project_type = "PRIVATE"
                                 /\ prs[i].reference_id = reference_id
                                 /\ prs[i].is_managed }
    IN  IF project_vos # {}
        THEN LET i == Min(project_vos)
                 vo == prs[i]
             IN  [ projects |->
                       [prs EXCEPT ![i] =
                           [vo EXCEPT !.project_group_id =
                                          IF project_group_id # None
                                          THEN project_group_id ELSE @,
                                      !.name = name,
                                      !.trusted_account_id = trusted_account_id,
                                      !.last_synced_at = Stamped]],
                   project_id |-> vo.project_id ]
        ELSE LET id == "project-" \o ToString(Len(prs) + 1)
             IN  [ projects |-> Append(prs,
                        [ project_id         |-> id,
                          name               |-> name,
                          reference_id       |-> reference_id,
                          workspace_id       |-> workspace_id,
                          project_type       |-> "PRIVATE",
                          project_group_id   |-> project_group_id,
                          trusted_account_id |-> None,
                          is_managed         |-> TRUE,
                          last_synced_at     |-> Stamped ]),
                   project_id |-> id ]

\* Where a record's reconciliation can raise
FailurePoints == {"none", "create_project", "validate_secret_data", "create_secret"}

\* The secret rotation of _create_service_account (lines 692-720) for the
\* service account at index i, on st = [service_accounts, secrets,
\* secret_seq]; adds raised.  The old secret is deleted before the new secret
\* data is validated and the new secret created.
rotate_secret_appending(st, i, trusted_secret_id, fail_at) ==
    LET new_secret_id == "secret-" \o ToString(st.secret_seq + 1)
        new_secret == [ secret_id          |-> new_secret_id,
                        service_account_id |-> st.service_accounts[i].service_account_id,
                        trusted_secret_id  |-> trusted_secret_id ]
    IN  IF fail_at \in {"validate_secret_data", "create_secret"}
        THEN [ service_accounts |-> st.service_accounts, secrets |-> st.secrets,
               secret_seq |-> st.secret_seq, raised |-> TRUE ]
        ELSE [ service_accounts |->
                   [st.service_accounts EXCEPT ![i].secret_id = new_secret_id],
               secrets          |-> st.secrets \cup {new_secret},
               secret_seq       |-> st.secret_seq + 1,
               raised           |-> FALSE ]

rotate_secret(st, i, trusted_secret_id, fail_at) ==
    LET old_secret_id == st.service_accounts[i].secret_id
        secrets1 == IF old_secret_id # None
                    THEN { s \in st.secrets : s.secret_id # old_secret_id }
                    ELSE st.secrets
        new_secret_id == "secret-" \o ToString(st.secret_seq + 1)
        new_secret == [ secret_id          |-> new_secret_id,
                        service_account_id |-> st.service_accounts[i].service_account_id,
                        trusted_secret_id  |-> trusted_secret_id ]
    IN  IF fail_at \in {"validate_secret_data", "create_secret"}
        THEN [ service_accounts |-> st.service_accounts, secrets |-> secrets1,
               secret_seq |-> st.secret_seq, raised |-> TRUE ]
        ELSE [ service_accounts |->
                   [st.service_accounts EXCEPT ![i].secret_id = new_secret_id],
               secrets          |-> secrets1 \cup {new_secret},
               secret_seq       |-> st.secret_seq + 1,
               raised           |-> FALSE ]

\* _create_service_account on st = [service_accounts, secrets, secret_seq];
\* adds raised.  All trusted accounts share one provider.
\* lines 659-673: the update of a service account found by reference_id;
\* update_params is reassigned at line 665, which drops the name set before
update_service_account_renaming(service_account_vo, result, trusted_account_id) ==
    [service_account_vo EXCEPT !.name = result.name,
                               !.trusted_account_id = trusted_account_id,
                               !.last_synced_at = Stamped]

update_service_account(service_account_vo, result, trusted_account_id) ==
    [service_account_vo EXCEPT !.trusted_account_id = trusted_account_id,
                               !.last_synced_at = Stamped]

create_service_account(st, result, workspace_id, project_id, trusted_account_id, trusted_secret_id, fail_at) ==
    LET sas == st.service_accounts
        service_account_vos ==
            { i \in DOMAIN sas : /\ sas[i].reference_id = result.resource_id
                                 /\ sas[i].is_managed
                                 /\ sas[i].workspace_id = workspace_id
                                 /\ sas[i].project_id = project_id }
        i == IF service_account_vos # {} THEN Min(service_account_vos)
                                         ELSE Len(sas) + 1
        sas1 ==
            IF service_account_vos # {}
            THEN [sas EXCEPT ![i] =
                     update_service_account(sas[i], result, trusted_account_id)]
            ELSE Append(sas,
                     [ service_account_id |-> "sa-" \o ToString(i),
                       name               |-> result.name,
                       data               |-> result.data,
                       reference_id       |-> result.resource_id,
                       workspace_id       |-> workspace_id,
                       project_id         |-> project_id,
                       trusted_account_id |-> trusted_account_id,
                       is_managed         |-> TRUE,
                       secret_id          |-> None,
                       last_synced_at     |-> NoTime ])
    IN  IF result.secret_data = NoSecretData
        THEN [ service_accounts |-> sas1, secrets |-> st.secrets,
               secret_seq |-> st.secret_seq, raised |-> FALSE ]
        ELSE rotate_secret([ service_accounts |-> sas1, secrets |-> st.secrets,
                             secret_seq |-> st.secret_seq ],
                           i, trusted_secret_id, fail_at)

\* The body of the for loop of sync_service_accounts for one result
\* (lines 258-310) on inv = [workspaces, project_groups, projects,
\* service_accounts, secrets, secret_seq]; adds raised and skipped.
reconcile_result_after_lookup(inv, lookup, result, trusted_account_id, msg, fail_at) ==
    LET ta == TrustedAccount(trusted_account_id)
        sync_options == ta.sync_options
        location == get_location(result, ta.resource_group, sync_options)
        domain == ta.resource_group = "DOMAIN"
        single == domain /\ sync_options.single_workspace_id # None
        pop == domain /\ ~single /\ location # << >>
        skip == domain /\ ~single /\ location = << >>
        ws == IF pop
              THEN create_workspace_after_lookup(inv.workspaces, lookup,
                                                 trusted_account_id, location[1])
              ELSE [ workspaces   |-> inv.workspaces,
                     workspace_id |-> IF single THEN sync_options.single_workspace_id
                                                ELSE msg.workspace_id ]
        rest == IF pop THEN Tail(location) ELSE location
        pg == create_project_groups(inv.project_groups, ws.workspace_id,
                                    trusted_account_id, rest, 1, None)
        pr == create_project(inv.projects, result, ws.workspace_id,
                             trusted_account_id, pg.parent_group_id)
        sa == create_service_account(
                  [ service_accounts |-> inv.service_accounts,
                    secrets |-> inv.secrets, secret_seq |-> inv.secret_seq ],
                  result, ws.workspace_id, pr.project_id, trusted_account_id,
                  msg.trusted_secret_id, fail_at)
        base == [ workspaces |-> inv.workspaces, project_groups |-> inv.project_groups,
                  projects |-> inv.projects, service_accounts |-> inv.service_accounts,
                  secrets |-> inv.secrets, secret_seq |-> inv.secret_seq,
                  raised |-> FALSE, skipped |-> FALSE ]
    IN  IF skip
        THEN [base EXCEPT !.skipped = TRUE]
        ELSE IF fail_at = "create_project"
        THEN [base EXCEPT !.workspaces = ws.workspaces,
                          !.project_groups = pg.project_groups,
                          !.raised = TRUE]
        ELSE [ workspaces       |-> ws.workspaces,
               project_groups   |-> pg.project_groups,
               projects         |-> pr.projects,
               service_accounts |-> sa.service_accounts,
               secrets          |-> sa.secrets,
               secret_seq       |-> sa.secret_seq,
               raised           |-> sa.raised,
               skipped          |-> FALSE ]

\* The record's first location node, when _create_workspace is called for it
workspace_node(result, trusted_account_id) ==
    LET ta == TrustedAccount(trusted_account_id)
        location == get_location(result, ta.resource_group, ta.sync_options)
    IN  IF /\ ta.resource_group = "DOMAIN"
           /\ ta.sync_options.single_workspace_id = None
           /\ location # << >>
        THEN location[1]
        ELSE Node(None, None)

\* The body of the for loop with the workspace lookup made in the same step
reconcile_result(inv, result, trusted_account_id, msg, fail_at) ==
    reconcile_result_after_lookup(
        inv,
        lookup_workspace(inv.workspaces, workspace_node(result, trusted_account_id).name),
        result, trusted_account_id, msg, fail_at)

\* Every field of the inventory except last_synced_at
Unstamp(coll) == [ i \in DOMAIN coll |-> [coll[i] EXCEPT !.last_synced_at = NoTime] ]

Derived(inv) ==
    << Unstamp(inv[1]), Unstamp(inv[2]), Unstamp(inv[3]), Unstamp(inv[4]), inv[5] >>

----------------------------------------------------------------------------
\* State machine

NoMsg == [ job_id |-> 0, trusted_account_id |-> None, trusted_secret_id |-> None,
           secret_data |-> NoSecretData, workspace_id |-> None ]

NoRet == [ op |-> "none" ]

NoSync == [ trusted_account_id |-> None, results |-> << >>, inventory |-> << >> ]

Idle == [ pc           |-> "idle",
          msg          |-> NoMsg,
          start_status |-> None,      \* history: the status the pre-start check read
          is_failed    |-> FALSE,
          results      |-> << >>,
          idx          |-> 1,
          inventory0   |-> << >>,     \* history: the inventory when the loop began
          rerun        |-> FALSE,     \* history: same input as last_sync, on its inventory
          undisturbed  |-> TRUE,      \* history: no other run wrote during the loop
          lookup       |-> NoLookup ] \* the workspace lookup of the record in hand

Init ==
    /\ now = 0
    /\ jobs = << >>
    /\ queue = {}
    /\ delivered = 0
    /\ worker = [ w \in Workers |-> Idle ]
    /\ workspaces = << [ workspace_id       |-> "workspace-1",
                         name               |-> "ws-b",
                         references         |-> << >>,
                         trusted_account_id |-> None,
                         is_managed         |-> FALSE,
                         last_synced_at     |-> NoTime ] >>
    /\ project_groups = << >>
    /\ projects = << >>
    /\ service_accounts = << >>
    /\ secrets = {}
    /\ secret_seq = 0
    /\ last_sync = NoSync
    /\ ret = NoRet

\* The result order of list_jobs shows only when two jobs can be selected
order_matters(js, ids) ==
    \E i, j \in DOMAIN js :
        /\ i # j
        /\ js[i].trusted_account_id \in ids
        /\ js[i].trusted_account_id = js[j].trusted_account_id
        /\ js[i].status = "IN_PROGRESS"
        /\ js[j].status = "IN_PROGRESS"

\* Time passes
Tick ==
    /\ now + TickStep <= MaxTime
    /\ now' = now + TickStep
    /\ ret' = NoRet
    /\ UNCHANGED << jobs, queue, delivered, worker, workspaces, project_groups,
                    projects, service_accounts, secrets, secret_seq, last_sync >>

\* create_service_account_job called directly (manual trigger)
CreateServiceAccountJob(id, outcome, newest_first) ==
    /\ Len(jobs) < MaxJobs
    /\ newest_first => order_matters(jobs, {id})
    /\ LET st == create_service_account_job(
                     [jobs |-> jobs, queue |-> queue, raised |-> FALSE],
                     id, outcome, newest_first, now)
       IN  /\ jobs' = st.jobs
           /\ queue' = st.queue
           /\ ret' = [ op |-> "create_service_account_job",
                       trusted_account_id |-> id,
                       outcome |-> outcome,
                       job_id |-> IF st.raised THEN 0 ELSE Len(st.jobs),
                       result |-> IF st.raised THEN "raised" ELSE "returned" ]
    /\ UNCHANGED << now, delivered, worker, workspaces, project_groups, projects,
                    service_accounts, secrets, secret_seq, last_sync >>

\* create_jobs_by_trusted_account (one scheduler tick)
CreateJobsByTrustedAccount(current_hour, list_ok, outcomes, newest_first) ==
    LET vos == get_all_schedule_enabled_trusted_accounts(current_hour)
        st == create_jobs_loop([jobs |-> jobs, queue |-> queue, raised |-> FALSE],
                               vos, 1, outcomes, newest_first, now)
    IN  /\ Len(jobs) + Len(vos) <= MaxJobs
        /\ newest_first => order_matters(jobs, TrustedAccountIds)
        /\ jobs' = IF list_ok THEN st.jobs ELSE jobs
        /\ queue' = IF list_ok THEN st.queue ELSE queue
        /\ ret' = [ op |-> "create_jobs_by_trusted_account",
                    current_hour |-> current_hour,
                    outcomes |-> outcomes,
                    result |-> IF list_ok THEN "returned" ELSE "raised" ]
        /\ UNCHANGED << now, delivered, worker, workspaces, project_groups, projects,
                        service_accounts, secrets, secret_seq, last_sync >>

\* sync_service_accounts, lines 205-231: a dispatch message is delivered to a
\* worker; the lookups run and the pre-start check reads the job's status.
\* A failing lookup raises out of the operation.
StartJob(w, msg, lookup_ok) ==
    /\ worker[w].pc = "idle"
    /\ \A i, j \in DOMAIN WorkerList :
           (WorkerList[j] = w /\ i < j) => worker[WorkerList[i]].pc # "idle"
    /\ msg \in queue
    /\ delivered < MaxDeliveries
    /\ delivered' = delivered + 1
    /\ IF lookup_ok
       THEN /\ worker' = [worker EXCEPT ![w] =
                   [Idle EXCEPT !.pc = "mark",
                                !.msg = msg,
                                !.start_status = jobs[msg.job_id].status,
                                !.is_failed = is_job_failed(jobs, msg.job_id)]]
            /\ ret' = NoRet
       ELSE /\ worker' = worker
            /\ ret' = [ op |-> "sync_service_accounts", job_id |-> msg.job_id,
                        result |-> "raised" ]
    /\ UNCHANGED << now, jobs, queue, workspaces, project_groups, projects,
                    service_accounts, secrets, secret_seq, last_sync >>

\* lines 231-234: change_canceled_status or change_in_progress_status
MarkStart(w) ==
    /\ worker[w].pc = "mark"
    /\ IF worker[w].is_failed
       THEN /\ jobs' = change_canceled_status(jobs, worker[w].msg.job_id)
            /\ worker' = [worker EXCEPT ![w].pc = "close"]
       ELSE /\ jobs' = change_in_progress_status(jobs, worker[w].msg.job_id)
            /\ worker' = [worker EXCEPT ![w].pc = "sync"]
    /\ ret' = NoRet
    /\ UNCHANGED << now, queue, delivered, workspaces, project_groups, projects,
                    service_accounts, secrets, secret_seq, last_sync >>

\* lines 236-256: the plugin endpoint is resolved and the plugin's sync is called
PluginSync(w, plugin_ok, response) ==
    /\ worker[w].pc = "sync"
    /\ IF plugin_ok
       THEN /\ worker' = [worker EXCEPT ![w] =
                   [@ EXCEPT !.pc = "loop",
                             !.results = response,
                             !.idx = 1,
                             !.inventory0 = inventory,
                             !.rerun =
                                 /\ last_sync.trusted_account_id = worker[w].msg.trusted_account_id
                                 /\ last_sync.results = response
                                 /\ last_sync.inventory = inventory,
                             !.undisturbed = TRUE]]
            /\ jobs' = jobs
            /\ ret' = [ op |-> "sync", job_id |-> worker[w].msg.job_id ]
       ELSE /\ worker' = [worker EXCEPT ![w].pc = "close"]
            /\ jobs' = change_error_status(jobs, worker[w].msg.job_id, "sync")
            /\ ret' = NoRet
    /\ UNCHANGED << now, queue, delivered, workspaces, project_groups, projects,
                    service_accounts, secrets, secret_seq, last_sync >>

\* The inventory as the reconciler's operators take it
Inventory ==
    [ workspaces |-> workspaces, project_groups |-> project_groups,
      projects |-> projects, service_accounts |-> service_accounts,
      secrets |-> secrets, secret_seq |-> secret_seq ]

\* The writes of one reconciled result r, and the loop's next position
ReconcileStep(w, r) ==
    /\ LET msg == worker[w].msg
       IN  /\ workspaces' = r.workspaces
           /\ project_groups' = r.project_groups
           /\ projects' = r.projects
           /\ service_accounts' = r.service_accounts
           /\ secrets' = r.secrets
           /\ secret_seq' = r.secret_seq
           /\ jobs' = IF r.raised
                      THEN change_error_status(jobs, msg.job_id, "reconcile")
                      ELSE jobs
           /\ worker' = [ v \in Workers |->
                 IF v = w
                 THEN IF r.raised THEN [worker[w] EXCEPT !.pc = "close"]
                                  ELSE [worker[w] EXCEPT !.pc = "loop", !.idx = @ + 1]
                 ELSE IF worker[v].pc = "loop"
                      THEN [worker[v] EXCEPT !.undisturbed = FALSE]
                      ELSE worker[v] ]
           /\ ret' = [ op |-> "reconcile", job_id |-> msg.job_id,
                       result |-> IF r.raised THEN "raised"
                                  ELSE IF r.skipped THEN "skipped" ELSE "done" ]
    /\ UNCHANGED << now, queue, delivered, last_sync >>

\* lines 258-310: one result of the response is reconciled
Reconcile(w, fail_at) ==
    /\ worker[w].pc = "loop"
    /\ worker[w].idx <= Len(worker[w].results)
    /\ ReconcileStep(w, reconcile_result(Inventory, worker[w].results[worker[w].idx],
                                         worker[w].msg.trusted_account_id,
                                         worker[w].msg, fail_at))

\* lines 494-496: _create_workspace reads the workspaces of the node's name;
\* other executors can run before the call goes on
LookupWorkspace(w) ==
    /\ worker[w].pc = "loop"
    /\ worker[w].idx <= Len(worker[w].results)
    /\ LET node == workspace_node(worker[w].results[worker[w].idx],
                                  worker[w].msg.trusted_account_id)
       IN  /\ node.name # None
           /\ worker' = [worker EXCEPT ![w].pc = "lookup",
                                       ![w].lookup = lookup_workspace(workspaces, node.name)]
    /\ ret' = [ op |-> "lookup", job_id |-> worker[w].msg.job_id ]
    /\ UNCHANGED << now, jobs, queue, delivered, workspaces, project_groups, projects,
                    service_accounts, secrets, secret_seq, last_sync >>

\* lines 501-528 and 284-310: the rest of _create_workspace and of the
\* record's reconciliation, on the result of the lookup
ReconcileAfterLookup(w, fail_at) ==
    /\ worker[w].pc = "lookup"
    /\ ReconcileStep(w, reconcile_result_after_lookup(
                            Inventory, worker[w].lookup,
                            worker[w].results[worker[w].idx],
                            worker[w].msg.trusted_account_id, worker[w].msg, fail_at))

\* line 312: the post-loop check reads the job's status
PostCheck(w) ==
    /\ worker[w].pc = "loop"
    /\ worker[w].idx > Len(worker[w].results)
    /\ worker' = [worker EXCEPT ![w].pc = "finish",
                                ![w].is_failed = is_job_failed(jobs, worker[w].msg.job_id)]
    /\ last_sync' = IF worker[w].undisturbed
                    THEN [ trusted_account_id |-> worker[w].msg.trusted_account_id,
                           results |-> worker[w].results,
                           inventory |-> inventory ]
                    ELSE last_sync
    /\ ret' = NoRet
    /\ UNCHANGED << now, jobs, queue, delivered, workspaces, project_groups,
                    projects, service_accounts, secrets, secret_seq >>

\* lines 313-324: change_canceled_status or change_success_status
Finish(w) ==
    /\ worker[w].pc = "finish"
    /\ jobs' = IF worker[w].is_failed
               THEN change_canceled_status(jobs, worker[w].msg.job_id)
               ELSE change_success_status(jobs, worker[w].msg.job_id)
    /\ worker' = [worker EXCEPT ![w].pc = "close"]
    /\ ret' = NoRet
    /\ UNCHANGED << now, queue, delivered, workspaces, project_groups, projects,
                    service_accounts, secrets, secret_seq, last_sync >>

\* lines 330-334: _close_job, and the operation returns
CloseJob(w) ==
    /\ worker[w].pc = "close"
    /\ jobs' = close_job(jobs, worker[w].msg.job_id)
    /\ worker' = [worker EXCEPT ![w] = Idle]
    /\ ret' = [ op |-> "sync_service_accounts", job_id |-> worker[w].msg.job_id,
                result |-> "returned", start_status |-> worker[w].start_status ]
    /\ UNCHANGED << now, queue, delivered, workspaces, project_groups, projects,
                    service_accounts, secrets, secret_seq, last_sync >>

\* Two workers on the jobs of the trusted accounts: concurrent and repeated
\* deliveries, stale and recent duplicates, a failing push and a failing plugin
RaceOutcomes == {"ok", "push_error"}

Next ==
    \/ Tick
    \/ \E outcome \in RaceOutcomes, newest_first \in BOOLEAN :
           CreateServiceAccountJob("ta-1", outcome, newest_first)
    \/ \E w \in Workers, msg \in queue : StartJob(w, msg, TRUE)
    \/ \E w \in Workers : MarkStart(w)
    \/ \E w \in Workers, plugin_ok \in BOOLEAN : PluginSync(w, plugin_ok, << RecAcct3 >>)
    \/ \E w \in Workers : Reconcile(w, "none")
    \/ \E w \in Workers : PostCheck(w)
    \/ \E w \in Workers : Finish(w)
    \/ \E w \in Workers : CloseJob(w)

Spec == Init /\ [][Next]_vars

\* One worker: every outcome of job creation, the scheduler tick, failing
\* lookups, a failing plugin and a failing record
LedgerResponses == { << RecAcct3 >> }
LedgerFailurePoints == {"none", "create_project"}
SweepHours == {0, 2}
LedgerOutcomes == {"ok", "provider_error", "push_error"}

NextLedger ==
    \/ Tick
    \/ \E outcome \in LedgerOutcomes, newest_first \in BOOLEAN :
           CreateServiceAccountJob("ta-1", outcome, newest_first)
    \/ \E current_hour \in SweepHours, newest_first \in BOOLEAN :
           \E outcomes \in [ { id \in TrustedAccountIds : is_scheduled(id, current_hour) }
                             -> LedgerOutcomes ] :
               CreateJobsByTrustedAccount(current_hour, TRUE, outcomes, newest_first)
    \/ \E current_hour \in SweepHours :
           CreateJobsByTrustedAccount(current_hour, FALSE,
                                      [id \in TrustedAccountIds |-> "ok"], FALSE)
    \/ \E msg \in queue, lookup_ok \in BOOLEAN : StartJob("w1", msg, lookup_ok)
    \/ MarkStart("w1")
    \/ \E plugin_ok \in BOOLEAN, response \in LedgerResponses :
           PluginSync("w1", plugin_ok, response)
    \/ \E fail_at \in LedgerFailurePoints : Reconcile("w1", fail_at)
    \/ PostCheck("w1")
    \/ Finish("w1")
    \/ CloseJob("w1")

SpecLedger == Init /\ [][NextLedger]_vars

\* One worker, one job at a time, every response and every failing record:
\* the reconciler on its own
ReconcileOutcomes == {"ok", "secret_error"}
ReconcileAccounts == {"ta-1", "ta-2", "ta-3"}

NextReconcile ==
    \/ /\ worker["w1"].pc = "idle"
       /\ \A i \in DOMAIN jobs : jobs[i].status \in TerminalStatus
       /\ \E id \in ReconcileAccounts, outcome \in ReconcileOutcomes :
              CreateServiceAccountJob(id, outcome, FALSE)
    \/ \E msg \in queue : StartJob("w1", msg, TRUE)
    \/ MarkStart("w1")
    \/ \E plugin_ok \in BOOLEAN, response \in PluginResponses :
           PluginSync("w1", plugin_ok, response)
    \/ \E fail_at \in FailurePoints : Reconcile("w1", fail_at)
    \/ PostCheck("w1")
    \/ Finish("w1")
    \/ CloseJob("w1")

SpecReconcile == Init /\ [][NextReconcile]_vars

\* The scheduler alone: a tick at every hour of the day, each due account's
\* job creation succeeding or raising
Hours == 0 .. 23
SweepOutcomes == {"ok", "provider_error"}

NextSweep ==
    \/ Tick
    \/ \E current_hour \in Hours :
           \E outcomes \in [ { id \in TrustedAccountIds : is_scheduled(id, current_hour) }
                             -> SweepOutcomes ] :
               CreateJobsByTrustedAccount(current_hour, TRUE, outcomes, FALSE)

SpecSweep == Init /\ [][NextSweep]_vars

\* One worker and the jobs of one trusted account whose credential lookup
\* succeeds or fails, with the duplicate check against running jobs
CredentialOutcomes == {"ok", "secret_error"}

NextCredential ==
    \/ Tick
    \/ \E outcome \in CredentialOutcomes, newest_first \in BOOLEAN :
           CreateServiceAccountJob("ta-1", outcome, newest_first)
    \/ \E msg \in queue : StartJob("w1", msg, TRUE)
    \/ MarkStart("w1")
    \/ \E plugin_ok \in BOOLEAN : PluginSync("w1", plugin_ok, << RecAcct3 >>)
    \/ Reconcile("w1", "none")
    \/ PostCheck("w1")
    \/ Finish("w1")
    \/ CloseJob("w1")

SpecCredential == Init /\ [][NextCredential]_vars

\* One worker, one job at a time, on records whose location paths overlap:
\* the same project and the same group under paths of different depth
HierarchyResponses ==
    { << RecAcct2 >>, << RecAcct2Moved >>, << RecAcct5 >>, << RecAcct6 >>,
      << RecAcct6, RecAcct2 >> }

HierarchyFailurePoints == {"none", "create_project"}

NextHierarchy ==
    \/ /\ worker["w1"].pc = "idle"
       /\ \A i \in DOMAIN jobs : jobs[i].status \in TerminalStatus
       /\ \E id \in ReconcileAccounts : CreateServiceAccountJob(id, "ok", FALSE)
    \/ \E msg \in queue : StartJob("w1", msg, TRUE)
    \/ MarkStart("w1")
    \/ \E plugin_ok \in BOOLEAN, response \in HierarchyResponses :
           PluginSync("w1", plugin_ok, response)
    \/ \E fail_at \in HierarchyFailurePoints : Reconcile("w1", fail_at)
    \/ PostCheck("w1")
    \/ Finish("w1")
    \/ CloseJob("w1")

SpecHierarchy == Init /\ [][NextHierarchy]_vars

\* Two workers on jobs of two DOMAIN trusted accounts whose records name the
\* same workspace, with the lookup of _create_workspace and the rest of the
\* record's reconciliation as separate steps
RacingAccounts == {"ta-1", "ta-4"}
RacingResponses == { << RecAcct2Moved >> }

NextWorkspaceRace ==
    \/ \E id \in RacingAccounts : CreateServiceAccountJob(id, "ok", FALSE)
    \/ \E w \in Workers, msg \in queue : StartJob(w, msg, TRUE)
    \/ \E w \in Workers : MarkStart(w)
    \/ \E w \in Workers, response \in RacingResponses : PluginSync(w, TRUE, response)
    \/ \E w \in Workers : LookupWorkspace(w)
    \/ \E w \in Workers, fail_at \in HierarchyFailurePoints : ReconcileAfterLookup(w, fail_at)
    \/ \E w \in Workers : PostCheck(w)
    \/ \E w \in Workers : Finish(w)
    \/ \E w \in Workers : CloseJob(w)

SpecWorkspaceRace == Init /\ [][NextWorkspaceRace]_vars

\* _get_location alone, on every location of up to MaxLocationLen nodes,
\* both resource groups and every value of the sync options
MaxLocationLen == 3

LocationNodes == { Node("ws-a", "w1"), Node("grp-1", "g1"), Node("grp-2", "g2") }

Locations == UNION { [ 1 .. n -> LocationNodes ] : n \in 0 .. MaxLocationLen }

LocationInputs ==
    [ op             : {"input"},
      result         : { Record("acct-1", "r1", location, NoSecretData) :
                             location \in Locations },
      resource_group : {"DOMAIN", "WORKSPACE"},
      sync_options   : [ skip_project_group  : BOOLEAN,
                         single_workspace_id : {None, "workspace-1"} ] ]

InitLocation ==
    /\ now = 0
    /\ jobs = << >>
    /\ queue = {}
    /\ delivered = 0
    /\ worker = [ w \in Workers |-> Idle ]
    /\ workspaces = << >>
    /\ project_groups = << >>
    /\ projects = << >>
    /\ service_accounts = << >>
    /\ secrets = {}
    /\ secret_seq = 0
    /\ last_sync = NoSync
    /\ ret \in LocationInputs

GetLocation ==
    /\ ret.op = "input"
    /\ ret' = [ret EXCEPT !.op = "_get_location"]
                @@ [ location |-> get_location(ret.result, ret.resource_group,
                                               ret.sync_options) ]
    /\ UNCHANGED << now, jobs, queue, delivered, worker, workspaces, project_groups,
                    projects, service_accounts, secrets, secret_seq, last_sync >>

NextLocation == GetLocation

SpecLocation == InitLocation /\ [][NextLocation]_vars

----------------------------------------------------------------------------
\* Properties

InQueue(q, job_id) == \E m \in q : m.job_id = job_id

SameKey(a, b) ==
    /\ a.trusted_account_id = b.trusted_account_id
    /\ a.workspace_id = b.workspace_id

\* The jobs a step created
NewJobs == { k \in DOMAIN jobs' : k > Len(jobs) }

\* C1: once a job's status is SUCCESS, FAILURE or CANCELED, no step of job
\* creation, the duplicate check, the executor or _close_job changes it.
C1_TerminalStatusImmutable ==
    [][ \A i \in DOMAIN jobs :
            jobs[i].status \in TerminalStatus => jobs'[i].status = jobs[i].status ]_vars

\* C1 witness: a redelivered message of a job that already ended went through
\* the pre-start step (change_in_progress_status was called on the terminal
\* job) and the job kept its status.
C1_Witness ==
    \E w \in Workers :
        /\ worker[w].pc = "sync"
        /\ worker[w].start_status = "SUCCESS"
        /\ jobs[worker[w].msg.job_id].status = "SUCCESS"

\* C2: for each (trusted_account_id, workspace_id) pair at most one job is
\* IN_PROGRESS.
C2_AtMostOneInProgress ==
    \A i, j \in DOMAIN jobs :
        ( /\ i # j
          /\ SameKey(jobs[i], jobs[j])
          /\ jobs[i].status = "IN_PROGRESS" )
        => jobs[j].status # "IN_PROGRESS"

\* C3 as stated: a job created less than 10 minutes after another job of the
\* same trusted account ends in FAILURE with the duplicate-job error, is not
\* queued, and the earlier job's record is unchanged.
C3_SecondWithinWindowIsDuplicate ==
    [][ \A k \in NewJobs : \A i \in DOMAIN jobs :
            ( /\ jobs[i].trusted_account_id = jobs'[k].trusted_account_id
              /\ now - jobs[i].created_at < DuplicateWindow )
            => /\ jobs'[k].status = "FAILURE"
               /\ jobs'[k].error = "ERROR_DUPLICATE_JOB"
               /\ ~InQueue(queue', k)
               /\ jobs'[i] = jobs[i] ]_vars

\* C3 amended: the same, when the earlier job is IN_PROGRESS at the time of
\* the second call.
C3_DuplicateOfRecentInProgress ==
    [][ \A k \in NewJobs : \A i \in DOMAIN jobs :
            ( /\ SameKey(jobs[i], jobs'[k])
              /\ jobs[i].status = "IN_PROGRESS"
              /\ now - jobs[i].created_at < DuplicateWindow )
            => /\ jobs'[k].status = "FAILURE"
               /\ jobs'[k].error = "ERROR_DUPLICATE_JOB"
               /\ ~InQueue(queue', k)
               /\ jobs'[i] = jobs[i] ]_vars

\* C3 witness: job creation has just returned a job marked as duplicate of an
\* IN_PROGRESS job created 5 minutes earlier.
C3_Witness ==
    /\ ret.op = "create_service_account_job"
    /\ ret.job_id > 0
    /\ jobs[ret.job_id].status = "FAILURE"
    /\ jobs[ret.job_id].error = "ERROR_DUPLICATE_JOB"
    /\ ~InQueue(queue, ret.job_id)
    /\ \E i \in DOMAIN jobs :
           /\ i # ret.job_id
           /\ SameKey(jobs[i], jobs[ret.job_id])
           /\ jobs[i].status = "IN_PROGRESS"
           /\ jobs[i].created_at < now
           /\ now - jobs[i].created_at < DuplicateWindow

\* The IN_PROGRESS jobs of the key of the job being created
InProgressOfKey(js, job) ==
    { i \in DOMAIN js : SameKey(js[i], job) /\ js[i].status = "IN_PROGRESS" }

\* C4 as stated: when an earlier job of the account is IN_PROGRESS and was
\* created 10 minutes or more before now, job creation cancels it and the new
\* job stays PENDING and is queued.
C4_StaleIsCanceledNewProceeds ==
    [][ \A k \in NewJobs : \A i \in InProgressOfKey(jobs, jobs'[k]) :
            now - jobs[i].created_at >= DuplicateWindow
            => /\ jobs'[i].status = "CANCELED"
               /\ jobs'[k].status = "PENDING"
               /\ InQueue(queue', k) ]_vars

\* C4 amended: when every IN_PROGRESS job of the key was created 10 minutes
\* or more before now, job creation cancels each of them and does not mark
\* the new job duplicate; the new job stays PENDING and is queued, or, when
\* push_job raises, is marked FAILURE with that error and is not queued.
C4_AllStaleAreCanceledNewProceeds ==
    [][ \A k \in NewJobs :
            ( /\ InProgressOfKey(jobs, jobs'[k]) # {}
              /\ \A i \in InProgressOfKey(jobs, jobs'[k]) :
                     now - jobs[i].created_at >= DuplicateWindow )
            => /\ \A i \in InProgressOfKey(jobs, jobs'[k]) :
                      jobs'[i].status = "CANCELED"
               /\ \/ /\ jobs'[k].status = "PENDING"
                     /\ InQueue(queue', k)
                  \/ /\ jobs'[k].status = "FAILURE"
                     /\ jobs'[k].error = "push_job"
                     /\ ~InQueue(queue', k) ]_vars

\* C4 witness: job creation has just returned a queued PENDING job after
\* canceling two IN_PROGRESS jobs of the account that were 10 minutes old.
C4_Witness ==
    /\ ret.op = "create_service_account_job"
    /\ ret.job_id > 0
    /\ jobs[ret.job_id].status = "PENDING"
    /\ InQueue(queue, ret.job_id)
    /\ \E i, j \in DOMAIN jobs :
           /\ i # j
           /\ \A x \in {i, j} :
                  /\ x # ret.job_id
                  /\ SameKey(jobs[x], jobs[ret.job_id])
                  /\ jobs[x].status = "CANCELED"
                  /\ now - jobs[x].created_at >= DuplicateWindow

\* The job a worker is executing
JobOf(w) == worker[w].msg.job_id

\* C5: a message delivered again for a job that already reached a terminal
\* status, SUCCESS included, does not invoke the plugin, does not reconcile
\* any record into the inventory, and does not move the job to IN_PROGRESS.
C5_RedeliveryOfTerminalJobDoesNothing ==
    \A w \in Workers :
        ( /\ worker[w].pc # "idle"
          /\ worker[w].start_status \in TerminalStatus )
        => /\ worker[w].pc \notin {"loop", "finish"}
           /\ ~(ret.op = "sync" /\ ret.job_id = JobOf(w))
           /\ ~(ret.op = "reconcile" /\ ret.job_id = JobOf(w))
           /\ jobs[JobOf(w)].status # "IN_PROGRESS"

\* C6: a second job's run with the same trusted account and the same plugin
\* response, against the inventory the first run left, creates no entity and
\* changes no field other than last_synced_at.
C6_ReconcileIdempotent ==
    \A w \in Workers :
        ( /\ worker[w].pc = "loop"
          /\ worker[w].start_status = "PENDING"
          /\ worker[w].idx > Len(worker[w].results)
          /\ worker[w].rerun
          /\ worker[w].undisturbed )
        => Derived(inventory) = Derived(worker[w].inventory0)

\* The workspace _create_workspace resolves for a name: the first one the
\* name filter returns, which exists once the call has returned
ResolvedWorkspace(name) ==
    Min(filter_workspaces_by_name(workspaces, name))

\* C7: after _create_workspace resolved the node (name, resource_id) of a
\* record, the resolved workspace's references contain the resource_id and
\* no other workspace's references do.
C7_ReferenceHeldByResolvedWorkspace ==
    \A w \in Workers :
        ( /\ ret.op = "reconcile"
          /\ ret.result = "done"
          /\ ret.job_id = JobOf(w)
          /\ worker[w].pc = "loop"
          /\ worker[w].idx > 1
          /\ TrustedAccount(worker[w].msg.trusted_account_id).resource_group = "DOMAIN"
          /\ TrustedAccount(worker[w].msg.trusted_account_id).sync_options.single_workspace_id = None
          /\ Len(worker[w].results[worker[w].idx - 1].location) > 0 )
        => LET node == worker[w].results[worker[w].idx - 1].location[1]
               resolved == ResolvedWorkspace(node.name)
           IN  \A i \in DOMAIN workspaces :
                   Contains(workspaces[i].references, node.resource_id)
                   <=> i = resolved

\* C8: every invocation of sync_service_accounts that has ended, by return
\* or by raise, has left its job SUCCESS, FAILURE or CANCELED.
C8_InvocationLeavesJobTerminal ==
    ret.op = "sync_service_accounts"
    => jobs[ret.job_id].status \in TerminalStatus

\* C9: create_jobs_by_trusted_account and sync_service_accounts always return
\* normally: no collaborator failure propagates out of them.
C9_NoFailurePropagates ==
    ret.op \in {"create_jobs_by_trusted_account", "sync_service_accounts"}
    => ret.result = "returned"

\* Steps of the executor whose pre-start check read CANCELED or FAILURE
PreStartFailed(w) ==
    /\ worker[w].pc # "idle"
    /\ worker[w].start_status \in {"CANCELED", "FAILURE"}

\* C10 as stated: when the pre-start check reads CANCELED or FAILURE, the
\* executor never marks the job IN_PROGRESS, never calls the plugin, changes
\* no inventory entity or secret, and the job is CANCELED when it returns.
C10_PreStartFailedEndsCanceled ==
    [][ \A w \in Workers :
            PreStartFailed(w)
            => /\ jobs'[JobOf(w)].status # "IN_PROGRESS"
               /\ worker'[w].pc \notin {"sync", "loop", "finish"}
               /\ worker'[w] # worker[w] => inventory' = inventory
               /\ worker'[w].pc = "idle" => jobs'[JobOf(w)].status = "CANCELED" ]_vars

\* C10 amended: the same, and the job's status when the executor returns is
\* the one the pre-start check read: CANCELED stays CANCELED, FAILURE stays
\* FAILURE.
C10_PreStartFailedKeepsStatus ==
    [][ \A w \in Workers :
            PreStartFailed(w)
            => /\ jobs'[JobOf(w)].status # "IN_PROGRESS"
               /\ worker'[w].pc \notin {"sync", "loop", "finish"}
               /\ worker'[w] # worker[w] => inventory' = inventory
               /\ worker'[w].pc = "idle"
                  => jobs'[JobOf(w)].status = worker[w].start_status ]_vars

\* C10 witness: the executor has returned from a job whose pre-start check
\* read FAILURE, and the job is FAILURE with its finish time stamped.
C10_Witness ==
    /\ ret.op = "sync_service_accounts"
    /\ ret.result = "returned"
    /\ ret.start_status = "FAILURE"
    /\ jobs[ret.job_id].status = "FAILURE"
    /\ jobs[ret.job_id].finished_at = Stamped

\* The executor is running a job that was canceled after its pre-start check
CanceledMidRun(w) ==
    /\ worker[w].pc # "idle"
    /\ worker[w].start_status \notin TerminalStatus
    /\ jobs[JobOf(w)].status = "CANCELED"

\* C11: a job canceled by a later job's duplicate check while
\* sync_service_accounts is running for it stays CANCELED through every later
\* step of that run, a raise and the post-loop check included, and is
\* CANCELED, not SUCCESS or FAILURE, when the invocation returns.
C11_CanceledMidRunStaysCanceled ==
    [][ \A w \in Workers :
            CanceledMidRun(w) => jobs'[JobOf(w)].status = "CANCELED" ]_vars

\* C11 witness: the executor has returned from a job that it started as
\* PENDING and that was canceled during the run; the job is CANCELED.
C11_Witness ==
    /\ ret.op = "sync_service_accounts"
    /\ ret.result = "returned"
    /\ ret.start_status = "PENDING"
    /\ jobs[ret.job_id].status = "CANCELED"

\* The step in which the plugin call or a record's reconciliation raises
Raises(w) ==
    /\ worker[w].pc \in {"sync", "loop"}
    /\ worker'[w].pc = "close"

\* No entity of the collection is removed
EntitiesKept(before, after) ==
    /\ Len(after) >= Len(before)
    /\ \A i \in DOMAIN before : after[i].reference_id = before[i].reference_id

\* C12: when the plugin call, a record's reconciliation or its secret
\* validation/creation raises while the job is IN_PROGRESS, the job becomes
\* FAILURE with the error recorded and no entity is removed; after that no
\* further record is processed, and when the invocation returns the job is
\* FAILURE with finished_at set.
C12_RaiseFailsTheJob ==
    [][ \A w \in Workers :
            /\ ( Raises(w) /\ jobs[JobOf(w)].status = "IN_PROGRESS" )
               => /\ jobs'[JobOf(w)].status = "FAILURE"
                  /\ jobs'[JobOf(w)].error \in {"sync", "reconcile"}
                  /\ Len(workspaces') >= Len(workspaces)
                  /\ Len(project_groups') >= Len(project_groups)
                  /\ EntitiesKept(projects, projects')
                  /\ EntitiesKept(service_accounts, service_accounts')
            /\ worker[w].pc = "close"
               => /\ worker'[w].pc \in {"close", "idle"}
                  /\ worker'[w] # worker[w] => inventory' = inventory
            /\ ( /\ worker[w].pc = "close"
                 /\ worker'[w].pc = "idle"
                 /\ jobs[JobOf(w)].status = "FAILURE" )
               => /\ jobs'[JobOf(w)].status = "FAILURE"
                  /\ jobs'[JobOf(w)].error = jobs[JobOf(w)].error
                  /\ jobs'[JobOf(w)].finished_at = Stamped ]_vars

\* C12 witness: the first run has returned after secret validation or creation
\* raised for its second record: the job is FAILURE with the error and a
\* finish time, and the project and service account of the first record are
\* in the inventory next to those of the second.
C12_Witness ==
    /\ ret.op = "sync_service_accounts"
    /\ ret.result = "returned"
    /\ delivered = 1
    /\ jobs[ret.job_id].status = "FAILURE"
    /\ jobs[ret.job_id].error = "reconcile"
    /\ jobs[ret.job_id].finished_at = Stamped
    /\ Len(projects) = 2
    /\ Len(service_accounts) = 2
    /\ secrets = {}

\* The account's schedule is enabled and its hours contain h
Due(id, h) ==
    /\ TrustedAccount(id).schedule.state = "ENABLED"
    /\ h \in TrustedAccount(id).schedule.hours

\* The jobs a step created for a trusted account
NewJobsOf(id) == { k \in NewJobs : jobs'[k].trusted_account_id = id }

\* A scheduler tick has just returned
SweepReturned ==
    /\ ret'.op = "create_jobs_by_trusted_account"
    /\ ret'.result = "returned"
    /\ ret' # ret \/ jobs' # jobs

\* C13: one scheduler tick at hour h creates exactly one job for each account
\* whose schedule is enabled and whose hours contain h (when that account's
\* job creation does not raise), and no job for any other account.
C13_SweepSelectsDueAccountsOnce ==
    [][ SweepReturned
        => \A id \in TrustedAccountIds :
               /\ ( Due(id, ret'.current_hour) /\ ret'.outcomes[id] = "ok" )
                  => Cardinality(NewJobsOf(id)) = 1
               /\ ~Due(id, ret'.current_hour) => NewJobsOf(id) = {} ]_vars

\* C13 witness: the tick at hour 1 has returned with one job for each of the
\* two due accounts and none for the disabled account whose hours contain 1.
C13_Witness ==
    /\ ret.op = "create_jobs_by_trusted_account"
    /\ ret.result = "returned"
    /\ ret.current_hour = 1
    /\ Len(jobs) = 2
    /\ jobs[1].trusted_account_id = "ta-1"
    /\ jobs[2].trusted_account_id = "ta-2"
    /\ 1 \in TrustedAccount("ta-3").schedule.hours

\* C14: within one tick, when job creation raises for a due account, a job
\* is still created for every other due account of the tick.
C14_SweepContinuesAfterFailure ==
    [][ ( /\ SweepReturned
          /\ \E bad \in DOMAIN ret'.outcomes : ret'.outcomes[bad] = "provider_error" )
        => \A id \in DOMAIN ret'.outcomes :
               ret'.outcomes[id] = "ok" => Cardinality(NewJobsOf(id)) = 1 ]_vars

\* C14 witness: the tick at hour 1 has returned; job creation raised for the
\* first due account and the second due account has its job, queued.
C14_Witness ==
    /\ ret.op = "create_jobs_by_trusted_account"
    /\ ret.result = "returned"
    /\ ret.current_hour = 1
    /\ ret.outcomes["ta-1"] = "provider_error"
    /\ ret.outcomes["ta-2"] = "ok"
    /\ Len(jobs) = 1
    /\ jobs[1].trusted_account_id = "ta-2"
    /\ InQueue(queue, 1)

\* C15: _get_location returns, with skip_project_group set, the list of the
\* first node alone (empty for an empty location) for resource group DOMAIN
\* and the empty list for WORKSPACE; with skip_project_group unset it returns
\* the location unchanged, in the same order.
C15_GetLocation ==
    ret.op = "_get_location"
    => LET given == ret.result.location
           got   == ret.location
       IN  IF ret.sync_options.skip_project_group
           THEN IF ret.resource_group = "DOMAIN"
                THEN /\ Len(got) = (IF Len(given) = 0 THEN 0 ELSE 1)
                     /\ \A i \in DOMAIN got : got[i] = Head(given)
                ELSE Len(got) = 0
           ELSE /\ Len(got) = Len(given)
                /\ \A i \in DOMAIN given : got[i] = given[i]

\* C15 witness: for a DOMAIN account with skip_project_group set, a location
\* of three different nodes was cut down to its first node.
C15_Witness ==
    /\ ret.op = "_get_location"
    /\ ret.resource_group = "DOMAIN"
    /\ ret.sync_options.skip_project_group
    /\ Len(ret.result.location) = 3
    /\ ret.result.location[2] # ret.result.location[1]
    /\ ret.result.location[3] # ret.result.location[1]
    /\ ret.location = << ret.result.location[1] >>

\* The executor is about to process a record with an empty location for a
\* DOMAIN-scoped trusted account without skip_project_group
EmptyLocationNext(w) ==
    /\ worker[w].pc = "loop"
    /\ worker[w].idx <= Len(worker[w].results)
    /\ worker[w].results[worker[w].idx].location = << >>
    /\ TrustedAccount(worker[w].msg.trusted_account_id).resource_group = "DOMAIN"
    /\ ~TrustedAccount(worker[w].msg.trusted_account_id).sync_options.skip_project_group

\* The executor processes its next record
ProcessesRecord(w) ==
    /\ worker[w].pc = "loop"
    /\ worker[w].idx <= Len(worker[w].results)
    /\ \/ worker'[w].idx # worker[w].idx
       \/ worker'[w].pc # worker[w].pc

RecordDone(w) ==
    /\ ProcessesRecord(w)
    /\ worker'[w].pc = "loop"
    /\ ret'.op = "reconcile"
    /\ ret'.result = "done"

\* The service accounts a step created or changed
Touched ==
    { i \in DOMAIN service_accounts' :
        \/ i \notin DOMAIN service_accounts
        \/ service_accounts'[i] # service_accounts[i] }

SecretIds(vault) == { s.secret_id : s \in vault }

C18_SecretIdRefersToVaultSecret ==
    \A i \in DOMAIN service_accounts :
        service_accounts[i].secret_id # None
        => service_accounts[i].secret_id \in SecretIds(secrets)

\* Job creation has just run for an account whose credential lookup failed
CreatedAfterSecretError ==
    /\ ret'.op = "create_service_account_job"
    /\ ret'.outcome = "secret_error"
    /\ ret' # ret \/ jobs' # jobs

\* The running jobs of an account created within the duplicate window
RecentInProgressOf(id) ==
    { i \in DOMAIN jobs :
        /\ jobs[i].trusted_account_id = id
        /\ jobs[i].status = "IN_PROGRESS"
        /\ is_recent(jobs[i].created_at, now) }

ResyncRenamed(w) ==
    /\ ProcessesRecord(w)
    /\ Len(worker[w].results) = 1
    /\ last_sync.trusted_account_id = worker[w].msg.trusted_account_id
    /\ last_sync.inventory = inventory
    /\ Len(last_sync.results) = 1
    /\ last_sync.results[1].resource_id = worker[w].results[1].resource_id
    /\ last_sync.results[1].location = worker[w].results[1].location
    /\ last_sync.results[1].name # worker[w].results[1].name

\* C20: re-syncing a record whose resource_id and location are unchanged and
\* whose name changed creates no Project and no ServiceAccount, and changes
\* on the existing service accounts nothing but trusted_account_id,
\* last_synced_at and, when the record carries secret_data, secret_id: name
\* and data stay as they were.
C20_RenamedResyncKeepsServiceAccount ==
    [][ \A w \in Workers :
            ResyncRenamed(w)
            => /\ Len(projects') = Len(projects)
               /\ Len(service_accounts') = Len(service_accounts)
               /\ \A i \in DOMAIN service_accounts :
                      service_accounts'[i] =
                          [service_accounts[i] EXCEPT
                              !.trusted_account_id = service_accounts'[i].trusted_account_id,
                              !.last_synced_at = service_accounts'[i].last_synced_at,
                              !.secret_id =
                                  IF worker[w].results[1].secret_data # NoSecretData
                                  THEN service_accounts'[i].secret_id
                                  ELSE @]
               /\ ret'.result = "done"
                  => \E i \in DOMAIN service_accounts :
                         /\ service_accounts[i].reference_id = worker[w].results[1].resource_id
                         /\ service_accounts'[i].last_synced_at = Stamped
                         /\ service_accounts'[i].name = service_accounts[i].name ]_vars

\* C20 witness: the record r1, synced as acct-1 and then as acct-1-renamed,
\* has been reconciled: there is one project and one service account, still
\* named acct-1 with the data of acct-1, stamped and holding the second secret.
C20_Witness ==
    /\ ret.op = "reconcile"
    /\ ret.result = "done"
    /\ \E w \in Workers :
           /\ worker[w].results = << RecAcct1Renamed >>
           /\ worker[w].idx = 2
    /\ last_sync.results = << RecAcct1 >>
    /\ Len(projects) = 1
    /\ Len(service_accounts) = 1
    /\ service_accounts[1].name = RecAcct1.name
    /\ service_accounts[1].data = RecAcct1.data
    /\ service_accounts[1].last_synced_at = Stamped
    /\ service_accounts[1].secret_id = "secret-2"

\* The workspace a record of a trusted account is reconciled into, read
\* after the record was processed
SyncWorkspaceId(ta, location) ==
    IF ta.resource_group # "DOMAIN"
    THEN ta.workspace_id
    ELSE IF ta.sync_options.single_workspace_id # None
    THEN ta.sync_options.single_workspace_id
    ELSE workspaces'[Min({ i \in DOMAIN workspaces' :
                             workspaces'[i].name = location[1].name })].workspace_id

\* The location nodes left for project groups
RemainingNodes(ta, location) ==
    IF ta.resource_group = "DOMAIN" /\ ta.sync_options.single_workspace_id = None
    THEN Tail(location)
    ELSE location

\* The managed project group of a node in a workspace, after the step
GroupOfNode(node, workspace_id) ==
    project_groups'[Min({ i \in DOMAIN project_groups' :
                            /\ project_groups'[i].is_managed
                            /\ project_groups'[i].reference_id = node.resource_id
                            /\ project_groups'[i].workspace_id = workspace_id })]

\* The managed project of a record in a workspace, after the step
ProjectOfRecord(result, workspace_id) ==
    projects'[Min({ i \in DOMAIN projects' :
                      /\ projects'[i].is_managed
                      /\ projects'[i].reference_id = result.resource_id
                      /\ projects'[i].workspace_id = workspace_id })]

\* C21: after a record with remaining location nodes n1..nk is reconciled,
\* the project group of n1 has no parent, the group of each n(i+1) has the
\* group of n(i) as its parent, and the record's project belongs to the group
\* of nk, or to no group when k = 0, for created and for matched entities.
C21_GroupChainFollowsLocation ==
    [][ \A w \in Workers :
            RecordDone(w)
            => LET result == worker[w].results[worker[w].idx]
                   ta == TrustedAccount(worker[w].msg.trusted_account_id)
                   location == get_location(result, ta.resource_group, ta.sync_options)
                   workspace_id == SyncWorkspaceId(ta, location)
                   nodes == RemainingNodes(ta, location)
                   k == Len(nodes)
               IN  /\ \A j \in 1 .. k :
                          GroupOfNode(nodes[j], workspace_id).parent_group_id =
                              IF j = 1 THEN None
                              ELSE GroupOfNode(nodes[j - 1], workspace_id).project_group_id
                   /\ ProjectOfRecord(result, workspace_id).project_group_id =
                          IF k = 0 THEN None
                          ELSE GroupOfNode(nodes[k], workspace_id).project_group_id ]_vars

\* The managed service account of a record in a workspace, after the step
ServiceAccountOfRecord(result, workspace_id) ==
    service_accounts'[Min({ i \in DOMAIN service_accounts' :
                              /\ service_accounts'[i].is_managed
                              /\ service_accounts'[i].reference_id = result.resource_id
                              /\ service_accounts'[i].workspace_id = workspace_id })]

\* An entity as reconciliation by a trusted account is said to leave it
MarkedBy(entity, trusted_account_id) ==
    /\ entity.is_managed
    /\ entity.last_synced_at = Stamped
    /\ entity.trusted_account_id = trusted_account_id

\* C22: right after a record is processed, the workspace resolved by name,
\* every project group of its remaining nodes, its project and its service
\* account have is_managed true, last_synced_at set and the trusted_account_id
\* of the account running the sync, whether they were created or matched.
C22_ReconciledEntitiesAreMarked ==
    [][ \A w \in Workers :
            RecordDone(w)
            => LET result == worker[w].results[worker[w].idx]
                   id == worker[w].msg.trusted_account_id
                   ta == TrustedAccount(id)
                   location == get_location(result, ta.resource_group, ta.sync_options)
                   workspace_id == SyncWorkspaceId(ta, location)
                   nodes == RemainingNodes(ta, location)
               IN  /\ ( ta.resource_group = "DOMAIN"
                        /\ ta.sync_options.single_workspace_id = None )
                      => \A i \in DOMAIN workspaces' :
                             workspaces'[i].workspace_id = workspace_id
                             => MarkedBy(workspaces'[i], id)
                   /\ \A j \in DOMAIN nodes :
                          MarkedBy(GroupOfNode(nodes[j], workspace_id), id)
                   /\ MarkedBy(ProjectOfRecord(result, workspace_id), id)
                   /\ MarkedBy(ServiceAccountOfRecord(result, workspace_id), id) ]_vars

\* The transitions of the job state machine
Transition(from, to) ==
    \/ from = "PENDING" /\ to \in {"IN_PROGRESS", "CANCELED"}
    \/ from = "IN_PROGRESS" /\ to \in {"SUCCESS", "FAILURE", "CANCELED"}

\* C23: every change of a job's status is a transition of the state machine
\* (PENDING to IN_PROGRESS or CANCELED, IN_PROGRESS to SUCCESS, FAILURE or
\* CANCELED); a job created PENDING by a step leaves that step PENDING or one
\* transition away from it.
C23_OnlyStateMachineTransitions ==
    [][ /\ \A i \in DOMAIN jobs :
               jobs'[i].status # jobs[i].status
               => Transition(jobs[i].status, jobs'[i].status)
        /\ \A k \in NewJobs :
               jobs'[k].status # "PENDING"
               => Transition("PENDING", jobs'[k].status) ]_vars

\* The executor is past its plugin call and has records left to reconcile
InRecordLoop(w) ==
    /\ worker[w].pc = "loop"
    /\ worker[w].idx <= Len(worker[w].results)

\* C24: no two executions of sync_service_accounts for jobs of the same
\* trusted account and workspace scope are at the same time between their
\* plugin call and the reconciliation of their last record.
C24_NoConcurrentRunsOfOneAccount ==
    \A w, v \in Workers :
        ( /\ w # v
          /\ InRecordLoop(w)
          /\ InRecordLoop(v)
          /\ worker[w].msg.job_id # worker[v].msg.job_id )
        => ~SameKey(jobs[worker[w].msg.job_id], jobs[worker[v].msg.job_id])

\* The rest of _create_workspace runs for an executor whose lookup found
\* no workspace of the node's name
CreatesAfterEmptyLookup(w) ==
    /\ worker[w].pc = "lookup"
    /\ ~worker[w].lookup.found
    /\ worker'[w].pc # "lookup"

\* C25: the lookup and the create of _create_workspace are separate steps,
\* and the create follows the lookup's result alone: an executor whose lookup
\* found no workspace of a name appends a workspace of that name, also when
\* another executor has created one in between, so that two workspaces of
\* one name, created for different trusted accounts, come to exist.
C25_CreateFollowsItsOwnLookup ==
    [][ \A w \in Workers :
            CreatesAfterEmptyLookup(w)
            => /\ Len(workspaces') = Len(workspaces) + 1
               /\ workspaces'[Len(workspaces')].name = worker[w].lookup.name
               /\ workspaces'[Len(workspaces')].trusted_account_id
                      = worker[w].msg.trusted_account_id ]_vars

\* C25 witness: two workspaces named ws-a exist, one created for ta-1 and
\* one for ta-4, each by an executor whose lookup had found none.
C25_Witness ==
    \E i, j \in DOMAIN workspaces :
        /\ i # j
        /\ workspaces[i].name = "ws-a"
        /\ workspaces[j].name = "ws-a"
        /\ workspaces[i].trusted_account_id = "ta-1"
        /\ workspaces[j].trusted_account_id = "ta-4"
        /\ \A v \in DOMAIN workspaces : v \notin {i, j} => workspaces[v].name # "ws-a"

\* _check_duplicate_job returned true for the job a step created
ReportedDuplicate(k) ==
    /\ jobs'[k].status = "FAILURE"
    /\ jobs'[k].error = "ERROR_DUPLICATE_JOB"

====
